---- MODULE Spec2Model ----
(***************************************************************************)
(* Deliveright order-routing adapter: the fulfillment event handler        *)
(* (orders_fulfilled_callback), the idempotency ledger (markIfNew), the    *)
(* eligibility filter (filterDeliverightProducts) and the quote endpoint   *)
(* (POST /carrier).                                                        *)
(***************************************************************************)
EXTENDS Integers, Sequences, FiniteSets, TLC

VARIABLES
    ledger,         \* rows of table processed_orders: set of <<shop, order_id>>
    hpc,            \* per delivery: position of orders_fulfilled_callback
    hev,            \* per delivery: the event (shop, body)
    hitems,         \* per delivery: payload.line_items
    hisNew,         \* per delivery: value markIfNew resolved with
    hsteps,         \* per delivery: the external effects performed, in order
    hredelivery,    \* per delivery: the event is a redelivery after a failed POST
    posts,          \* per (shop, order): number of provider POSTs (axios in newOrder)
    submitted,      \* (shop, order) pairs whose provider POST succeeded
    postFailed,     \* (shop, order) pairs with a provider POST that failed
    fin,            \* eligibility filter run: the input
    fout,           \* eligibility filter run: the result
    serviceLevels,  \* config.serviceLevels[s].total_price, shared by all requests
    qpc,            \* per quote request: position in app.post("/carrier")
    qreq,           \* per quote request: the request (shop, rate.items)
    qlevels,        \* per quote request: service_levels still to process
    qrates,         \* per quote request: rates (references into config.serviceLevels)
    qcalc,          \* per quote request: outcome of each calculateShippingRate
    qerr,           \* per quote request: the step whose error reached the outer catch
    qres,           \* per quote request: the response sent
    pin,            \* price computation: the rate result and the store settings
    pout,           \* price computation: what calculateShippingRate settled with
    oin,            \* origin resolution: line item, fulfillments, platform answers
    opc,            \* origin resolution: position in createDeliverightOrder's loop body
    origin_location, \* origin resolution: the origin of the line item
    location,       \* origin resolution: the local variable location
    oqueries,       \* origin resolution: platform queries issued, in order
    uin,            \* location update: the event's line-item origin and fulfillments
    upc,            \* location update: position of each fulfillment's task
    uorigin         \* location update: origin_location of each payload line item

vars == <<ledger, hpc, hev, hitems, hisNew, hsteps, hredelivery, posts,
          submitted, postFailed, fin, fout, serviceLevels, qpc, qreq, qlevels,
          qrates, qcalc, qerr, qres, pin, pout, oin, opc, origin_location,
          location, oqueries, uin, upc, uorigin>>

hvars == <<ledger, hpc, hev, hitems, hisNew, hsteps, hredelivery, posts,
           submitted, postFailed>>
fvars == <<fin, fout>>
qvars == <<serviceLevels, qpc, qreq, qlevels, qrates, qcalc, qerr, qres>>
pvars == <<pin, pout>>
ovars == <<oin, opc, origin_location, location, oqueries>>
uvars == <<uin, upc, uorigin>>

(***************************************************************************)
(* Bounds                                                                  *)
(***************************************************************************)
NumDeliveries == 2      \* webhook deliveries in flight or done
MaxItems == 2           \* length of an item list given to the filter
NumRequests == 2        \* quote requests in flight or done
NumProducts == 2        \* products of a store

Deliveries == 1..NumDeliveries
Requests == 1..NumRequests

(***************************************************************************)
(* Configuration                                                           *)
(***************************************************************************)
\* Object.keys(config.serviceLevels): the own keys of the catalog.
level_codes ==
    {"prcl", "willcall", "unattended", "rocpa", "wg", "thr", "blnk", "rocp",
     "roc", "curb", "pick_consolidate"}

\* Names every object literal inherits from Object.prototype.
ObjectPrototypeKeys ==
    {"constructor", "toString", "valueOf", "hasOwnProperty", "__proto__"}

\* !!config.serviceLevels[code]: a property read on an object literal, which
\* also finds inherited properties.
serviceLevelMember(code) == code \in level_codes
serviceLevelLookup(code) ==
    serviceLevelMember(code) \/ code \in ObjectPrototypeKeys

(***************************************************************************)
(* Eligibility filter (pure functions)                                     *)
(***************************************************************************)
ProductIds == 1..NumProducts
NotFound == <<"not_found">>     \* a null node of the GraphQL answer

RECURSIVE SeqsUpTo(_, _)
SeqsUpTo(S, n) ==
    IF n = 0 THEN {<<>>}
    ELSE LET shorter == SeqsUpTo(S, n - 1)
         IN shorter \cup {Append(s, x) : s \in {t \in shorter : Len(t) = n - 1}, x \in S}

MapSeq(F(_), s) == [i \in 1..Len(s) |-> F(s[i])]

\* A call that rejected or threw, and one that returned value v.
Threw == [threw |-> TRUE, value |-> <<>>]
Returned(v) == [threw |-> FALSE, value |-> v]

\* productFilterTags: the product with only its service-level tags.
productFilterTags(p) ==
    LET keep(t) == t \in level_codes
    IN [product_id |-> p.product_id, tags |-> SelectSeq(p.tags, keep)]

\* getProducts: one node per requested id; a null node makes the .map throw,
\* and so does a failed HTTP call.
getProducts(catalog, fetchOk, productIds) ==
    IF ~fetchOk \/ \E i \in 1..Len(productIds) : catalog[productIds[i]] = NotFound
    THEN Threw
    ELSE Returned([i \in 1..Len(productIds) |->
            [product_id |-> productIds[i], tags |-> catalog[productIds[i]]]])

\* products.find(p => p.product_id === id)
findProduct(products, id) ==
    products[CHOOSE i \in 1..Len(products) :
                /\ products[i].product_id = id
                /\ \A j \in 1..(i - 1) : products[j].product_id # id]

\* addServiceTags(products)(item)
addServiceTags(products, item) ==
    [product_id |-> item.product_id, tags |-> findProduct(products, item.product_id).tags]

\* The default export.  The value of
\*   products.map(productFilterTags).filter(p => p.tags.length > 0)
\* is discarded: map and filter build new arrays and products is untouched.
filterDeliverightProducts(catalog, fetchOk, items) ==
    LET product_ids == [i \in 1..Len(items) |-> items[i].product_id]
        got == getProducts(catalog, fetchOk, product_ids)
    IN IF got.threw THEN Threw
       ELSE LET products == got.value
                discarded == SelectSeq(MapSeq(productFilterTags, products),
                                       LAMBDA p : Len(p.tags) > 0)
                filtered_ids == {products[i].product_id : i \in 1..Len(products)}
                kept == SelectSeq(items, LAMBDA p : p.product_id \in filtered_ids)
            IN Returned([i \in 1..Len(kept) |-> addServiceTags(products, kept[i])])

(***************************************************************************)
(* Fulfillment event handler and idempotency ledger                        *)
(***************************************************************************)
Shops == {"a.myshopify.com", "b.myshopify.com"}

\* The orders of the platform: a redelivered event carries the same body.
\* shipping_lines?.[0]?.code is undefined when there is no shipping line, and
\* config.serviceLevels[undefined] reads the key "undefined".
OrderBook ==
    [id \in 1001..1005 |->
        CASE id = 1001 -> [code |-> "wg", line_items |-> <<1, 2>>]
          [] id = 1002 -> [code |-> "unknown_code", line_items |-> <<1>>]
          [] id = 1003 -> [code |-> "undefined", line_items |-> <<1>>]
          [] id = 1004 -> [code |-> "constructor", line_items |-> <<2>>]
          [] id = 1005 -> [code |-> "wg", line_items |-> <<>>]]
OrderIds == DOMAIN OrderBook
Keys == Shops \X OrderIds

\* The products of the tenants' stores as the tag lookup reports them.
StoreCatalog == [p \in ProductIds |->
    IF p = 1 THEN <<"wg", "sale">> ELSE <<"rocpa", "wg">>]

NoEvent == [shop |-> "", id |-> 0, parses |-> FALSE]
\* Tenant a receives every order of the book; tenant b receives order 1001 as
\* well (the same order id under two tenants).
Events ==
    [shop : {"a.myshopify.com"}, id : OrderIds, parses : {TRUE}]
        \cup [shop : {"b.myshopify.com"}, id : {1001}, parses : {TRUE}]
        \cup [shop : Shops, id : {0}, parses : {FALSE}]

lineItems(id) ==
    [i \in 1..Len(OrderBook[id].line_items) |->
        [product_id |-> OrderBook[id].line_items[i], tags |-> <<>>]]

Key(d) == <<hev[d].shop, hev[d].id>>
Terminal == {"REJECTED", "DUPLICATE", "SUBMITTED", "FAILED", "CRASHED"}

Step(d, pc, step) ==
    /\ hpc' = [hpc EXCEPT ![d] = pc]
    /\ hsteps' = [hsteps EXCEPT ![d] = Append(@, step)]

InitHandler ==
    /\ ledger = {}
    /\ hpc = [d \in Deliveries |-> "idle"]
    /\ hev = [d \in Deliveries |-> NoEvent]
    /\ hitems = [d \in Deliveries |-> <<>>]
    /\ hisNew = [d \in Deliveries |-> "none"]
    /\ hsteps = [d \in Deliveries |-> <<>>]
    /\ hredelivery = [d \in Deliveries |-> FALSE]
    /\ posts = [k \in Keys |-> 0]
    /\ submitted = {}
    /\ postFailed = {}

\* The platform delivers (or redelivers) an event: the callback is invoked.
Deliver(d) ==
    /\ hpc[d] = "idle"
    /\ \E ev \in Events :
        /\ hev' = [hev EXCEPT ![d] = ev]
        /\ hredelivery' = [hredelivery EXCEPT ![d] =
                              ev.parses /\ <<ev.shop, ev.id>> \in postFailed]
    /\ hpc' = [hpc EXCEPT ![d] = "parse"]
    /\ UNCHANGED <<ledger, hitems, hisNew, hsteps, posts, submitted, postFailed, fvars, qvars, pvars, ovars, uvars>>

\* let payload = JSON.parse(body), outside the try block.
Parse(d) ==
    /\ hpc[d] = "parse"
    /\ IF hev[d].parses
       THEN /\ hitems' = [hitems EXCEPT ![d] = lineItems(hev[d].id)]
            /\ hpc' = [hpc EXCEPT ![d] = "getStore"]
       ELSE /\ hpc' = [hpc EXCEPT ![d] = "CRASHED"]
            /\ UNCHANGED hitems
    /\ UNCHANGED <<ledger, hev, hisNew, hsteps, hredelivery, posts, submitted, postFailed, fvars, qvars, pvars, ovars, uvars>>

\* await deliveright.getStore(shop), then the classification of the code.
GetStore(d) ==
    /\ hpc[d] = "getStore"
    /\ \E ok \in BOOLEAN :
        IF ~ok THEN Step(d, "FAILED", "getStore_failed")
        ELSE IF serviceLevelLookup(OrderBook[hev[d].id].code)
             THEN Step(d, "locations", "accepted")
             ELSE Step(d, "REJECTED", "rejected")
    /\ UNCHANGED <<ledger, hev, hitems, hisNew, hredelivery, posts, submitted, postFailed, fvars, qvars, pvars, ovars, uvars>>

\* await update_line_items_location(session, payload): a throw skips the
\* filter (inner catch).
UpdateLocations(d) ==
    /\ hpc[d] = "locations"
    /\ \E ok \in BOOLEAN :
        IF ok THEN Step(d, "filter", "locations")
        ELSE Step(d, "ledger", "locations_failed")
    /\ UNCHANGED <<ledger, hev, hitems, hisNew, hredelivery, posts, submitted, postFailed, fvars, qvars, pvars, ovars, uvars>>

\* Mutant: the ledger check is missing -- the callback goes from the filter
\* straight to newOrder.
FilterItems_SkipLedger(d) ==
    /\ hpc[d] = "filter"
    /\ \E fetchOk \in BOOLEAN :
        LET r == filterDeliverightProducts(StoreCatalog, fetchOk, hitems[d])
        IN IF r.threw
           THEN /\ Step(d, "transform", "filter_failed")
                /\ UNCHANGED hitems
           ELSE /\ Step(d, "transform", "filtered")
                /\ hitems' = [hitems EXCEPT ![d] = r.value]
    /\ UNCHANGED <<ledger, hev, hisNew, hredelivery, posts, submitted, postFailed, fvars, qvars, pvars, ovars, uvars>>

\* Mutant: no inner try/catch -- a filter failure ends the invocation.
FilterItems_NoInnerCatch(d) ==
    /\ hpc[d] = "filter"
    /\ \E fetchOk \in BOOLEAN :
        LET r == filterDeliverightProducts(StoreCatalog, fetchOk, hitems[d])
        IN IF r.threw
           THEN /\ Step(d, "FAILED", "filter_failed")
                /\ UNCHANGED hitems
           ELSE /\ Step(d, "ledger", "filtered")
                /\ hitems' = [hitems EXCEPT ![d] = r.value]
    /\ UNCHANGED <<ledger, hev, hisNew, hredelivery, posts, submitted, postFailed, fvars, qvars, pvars, ovars, uvars>>

\* Mutant: the callback returns when the filter leaves no line item.
FilterItems_StopOnEmpty(d) ==
    /\ hpc[d] = "filter"
    /\ \E fetchOk \in BOOLEAN :
        LET r == filterDeliverightProducts(StoreCatalog, fetchOk, hitems[d])
        IN IF r.threw
           THEN /\ Step(d, "ledger", "filter_failed")
                /\ UNCHANGED hitems
           ELSE /\ Step(d, IF r.value = <<>> THEN "REJECTED" ELSE "ledger", "filtered")
                /\ hitems' = [hitems EXCEPT ![d] = r.value]
    /\ UNCHANGED <<ledger, hev, hisNew, hredelivery, posts, submitted, postFailed, fvars, qvars, pvars, ovars, uvars>>

\* filtered_items = await filterDeliverightProducts(...), inside the inner try.
FilterItems(d) ==
    /\ hpc[d] = "filter"
    /\ \E fetchOk \in BOOLEAN :
        LET r == filterDeliverightProducts(StoreCatalog, fetchOk, hitems[d])
        IN IF r.threw
           THEN /\ Step(d, "ledger", "filter_failed")
                /\ UNCHANGED hitems
           ELSE /\ Step(d, "ledger", "filtered")
                /\ hitems' = [hitems EXCEPT ![d] = r.value]
    /\ UNCHANGED <<ledger, hev, hisNew, hredelivery, posts, submitted, postFailed, fvars, qvars, pvars, ovars, uvars>>

\* Mutant: INSERT OR REPLACE -- every call changes a row and resolves true.
markIfNew_Replace(d, storageOk) ==
    IF ~storageOk
    THEN /\ Step(d, "FAILED", "ledger_error")
         /\ UNCHANGED <<ledger, hisNew>>
    ELSE /\ Step(d, "transform", "ledger_new")
         /\ hisNew' = [hisNew EXCEPT ![d] = "true"]
         /\ ledger' = ledger \cup {Key(d)}

\* Mutant: resolves true for a new key without writing the row.
markIfNew_NoInsert(d, storageOk) ==
    IF ~storageOk
    THEN /\ Step(d, "FAILED", "ledger_error")
         /\ UNCHANGED <<ledger, hisNew>>
    ELSE IF Key(d) \in ledger
         THEN /\ Step(d, "DUPLICATE", "ledger_old")
              /\ hisNew' = [hisNew EXCEPT ![d] = "false"]
              /\ UNCHANGED ledger
         ELSE /\ Step(d, "transform", "ledger_new")
              /\ hisNew' = [hisNew EXCEPT ![d] = "true"]
              /\ UNCHANGED ledger

\* Mutant: a storage error resolves true instead of rejecting (fail open).
markIfNew_FailOpen(d, storageOk) ==
    IF ~storageOk
    THEN /\ Step(d, "transform", "ledger_error")
         /\ hisNew' = [hisNew EXCEPT ![d] = "true"]
         /\ UNCHANGED ledger
    ELSE IF Key(d) \in ledger
         THEN /\ Step(d, "DUPLICATE", "ledger_old")
              /\ hisNew' = [hisNew EXCEPT ![d] = "false"]
              /\ UNCHANGED ledger
         ELSE /\ Step(d, "transform", "ledger_new")
              /\ hisNew' = [hisNew EXCEPT ![d] = "true"]
              /\ ledger' = ledger \cup {Key(d)}

\* Mutant: the ledger is keyed by the order id alone.
markIfNew_OrderIdOnly(d, storageOk) ==
    IF ~storageOk
    THEN /\ Step(d, "FAILED", "ledger_error")
         /\ UNCHANGED <<ledger, hisNew>>
    ELSE IF \E k \in ledger : k[2] = Key(d)[2]
         THEN /\ Step(d, "DUPLICATE", "ledger_old")
              /\ hisNew' = [hisNew EXCEPT ![d] = "false"]
              /\ UNCHANGED ledger
         ELSE /\ Step(d, "transform", "ledger_new")
              /\ hisNew' = [hisNew EXCEPT ![d] = "true"]
              /\ ledger' = ledger \cup {Key(d)}

\* markIfNew(shop, orderId): INSERT ... ON CONFLICT DO NOTHING, one atomic
\* statement; resolves this.changes > 0, rejects on a storage error.
markIfNew(d, storageOk) ==
    IF ~storageOk
    THEN /\ Step(d, "FAILED", "ledger_error")
         /\ UNCHANGED <<ledger, hisNew>>
    ELSE IF Key(d) \in ledger
         THEN /\ Step(d, "DUPLICATE", "ledger_old")
              /\ hisNew' = [hisNew EXCEPT ![d] = "false"]
              /\ UNCHANGED ledger
         ELSE /\ Step(d, "transform", "ledger_new")
              /\ hisNew' = [hisNew EXCEPT ![d] = "true"]
              /\ ledger' = ledger \cup {Key(d)}

\* Mutant: the early return on !isNew is missing.
MarkIfNew_NoReturn(d) ==
    /\ hpc[d] = "ledger"
    /\ \E storageOk \in BOOLEAN :
        IF ~storageOk
        THEN /\ Step(d, "FAILED", "ledger_error")
             /\ UNCHANGED <<ledger, hisNew>>
        ELSE /\ Step(d, "transform", IF Key(d) \in ledger THEN "ledger_old" ELSE "ledger_new")
             /\ hisNew' = [hisNew EXCEPT ![d] = IF Key(d) \in ledger THEN "false" ELSE "true"]
             /\ ledger' = ledger \cup {Key(d)}
    /\ UNCHANGED <<hev, hitems, hredelivery, posts, submitted, postFailed, fvars, qvars, pvars, ovars, uvars>>

\* const isNew = await markIfNew(shop, payload.id); if (!isNew) return;
MarkIfNew(d) ==
    /\ hpc[d] = "ledger"
    /\ \E storageOk \in BOOLEAN : markIfNew(d, storageOk)
    /\ UNCHANGED <<hev, hitems, hredelivery, posts, submitted, postFailed, fvars, qvars, pvars, ovars, uvars>>

\* newOrder: let order = await this.createDeliverightOrder(data, store, store_id)
Transform(d) ==
    /\ hpc[d] = "transform"
    /\ \E ok \in BOOLEAN :
        IF ok THEN Step(d, "post", "transformed")
        ELSE Step(d, "FAILED", "transform_failed")
    /\ UNCHANGED <<ledger, hev, hitems, hisNew, hredelivery, posts, submitted, postFailed, fvars, qvars, pvars, ovars, uvars>>

\* newOrder: await axios(config); the error is rethrown and the callback's
\* outer catch logs it.
Post(d) ==
    /\ hpc[d] = "post"
    /\ posts' = [posts EXCEPT ![Key(d)] = @ + 1]
    /\ \E ok \in BOOLEAN :
        IF ok
        THEN /\ Step(d, "SUBMITTED", "post_ok")
             /\ submitted' = submitted \cup {Key(d)}
             /\ UNCHANGED postFailed
        ELSE /\ Step(d, "FAILED", "post_failed")
             /\ postFailed' = postFailed \cup {Key(d)}
             /\ UNCHANGED submitted
    /\ UNCHANGED <<ledger, hev, hitems, hisNew, hredelivery, fvars, qvars, pvars, ovars, uvars>>

orders_fulfilled_callback(d) ==
    \/ Parse(d)
    \/ GetStore(d)
    \/ UpdateLocations(d)
    \/ FilterItems(d)
    \/ MarkIfNew(d)
    \/ Transform(d)
    \/ Post(d)

InertHandler ==
    /\ ledger = {}
    /\ hpc = [d \in Deliveries |-> "off"]
    /\ hev = [d \in Deliveries |-> NoEvent]
    /\ hitems = [d \in Deliveries |-> <<>>]
    /\ hisNew = [d \in Deliveries |-> "none"]
    /\ hsteps = [d \in Deliveries |-> <<>>]
    /\ hredelivery = [d \in Deliveries |-> FALSE]
    /\ posts = [k \in Keys |-> 0]
    /\ submitted = {}
    /\ postFailed = {}

(***************************************************************************)
(* One run of the eligibility filter on drawn inputs                       *)
(***************************************************************************)
\* Tag lists a product can carry: none, only other tags, service-level codes
\* mixed with other tags in either order, several codes.
TagLists ==
    {<<>>, <<"sale">>, <<"wg">>, <<"wg", "sale">>, <<"sale", "wg">>,
     <<"rocpa", "wg">>, <<"sale", "rocpa", "new", "wg">>}
ItemLists ==
    {[i \in 1..Len(ids) |-> [product_id |-> ids[i], tags |-> <<>>]] :
        ids \in SeqsUpTo(ProductIds, MaxItems)}
Catalogs == [ProductIds -> TagLists \cup {NotFound}]

NoInput == [catalog |-> [p \in ProductIds |-> <<>>], fetchOk |-> TRUE, items |-> <<>>]
Pending == [done |-> FALSE, threw |-> FALSE, value |-> <<>>]

InitFilter ==
    /\ fin \in [catalog : Catalogs, fetchOk : BOOLEAN, items : ItemLists]
    /\ fout = Pending

InertFilter ==
    /\ fin = NoInput
    /\ fout = Pending

RunFilter ==
    /\ ~fout.done
    /\ LET r == filterDeliverightProducts(fin.catalog, fin.fetchOk, fin.items)
       IN fout' = [done |-> TRUE, threw |-> r.threw, value |-> r.value]
    /\ UNCHANGED <<fin, hvars, qvars, pvars, ovars, uvars>>

(***************************************************************************)
(* Quote endpoint: app.post("/carrier")                                    *)
(***************************************************************************)
\* Values of total_price.
Unset == [t |-> "unset"]
Null == [t |-> "null"]
Num(n) == [t |-> "num", v |-> n]

\* What one call of calculateShippingRate can do: reject, or resolve a price.
RateOutcomes == {"reject", "low", "high"}
calculateShippingRate(outcome) ==
    CASE outcome = "reject" -> [threw |-> TRUE, value |-> Null]
      [] outcome = "low" -> [threw |-> FALSE, value |-> Num(500000)]
      [] outcome = "high" -> [threw |-> FALSE, value |-> Num(900000)]

Carts == {<<>>, <<1>>, <<2>>, <<1, 2>>}
NoRequest == [shop |-> "", items |-> <<>>]
NoResponse == [sent |-> FALSE, status |-> 0, rates |-> <<>>]

\* [...new Set(all_tags)]: the distinct values in order of first occurrence.
RECURSIVE Distinct(_)
Distinct(s) ==
    IF s = <<>> THEN <<>>
    ELSE LET front == Distinct(SubSeq(s, 1, Len(s) - 1))
             last == s[Len(s)]
         IN IF \E i \in 1..Len(front) : front[i] = last THEN front
            ELSE Append(front, last)

\* items.flatMap((i) => i.tags)
RECURSIVE flatTags(_)
flatTags(items) ==
    IF items = <<>> THEN <<>> ELSE items[1].tags \o flatTags(Tail(items))

\* if (!config.serviceLevels[s]) continue;  -- the loop runs on to the first
\* level it has to await a calculation for.
RECURSIVE skipUnsupported(_)
skipUnsupported(levels) ==
    IF levels = <<>> THEN <<>>
    ELSE IF serviceLevelLookup(levels[1]) THEN levels
         ELSE skipUnsupported(Tail(levels))

\* res.status(200).send({ rates }): rates holds the catalog's own entries,
\* serialised as they are at the time of the send.
sendRates(rates, levelsNow) ==
    [sent |-> TRUE, status |-> 200,
     rates |-> [i \in 1..Len(rates) |->
                   [service_code |-> rates[i], total_price |-> levelsNow[rates[i]]]]]

\* catch (err) { res.status(400).send(); }
sendError == [sent |-> TRUE, status |-> 400, rates |-> <<>>]

InitQuote ==
    /\ serviceLevels = [s \in level_codes |-> Unset]
    /\ qpc = [r \in Requests |-> "idle"]
    /\ qreq = [r \in Requests |-> NoRequest]
    /\ qlevels = [r \in Requests |-> <<>>]
    /\ qrates = [r \in Requests |-> <<>>]
    /\ qcalc = [r \in Requests |-> <<>>]
    /\ qerr = [r \in Requests |-> "none"]
    /\ qres = [r \in Requests |-> NoResponse]

InertQuote ==
    /\ serviceLevels = [s \in level_codes |-> Unset]
    /\ qpc = [r \in Requests |-> "off"]
    /\ qreq = [r \in Requests |-> NoRequest]
    /\ qlevels = [r \in Requests |-> <<>>]
    /\ qrates = [r \in Requests |-> <<>>]
    /\ qcalc = [r \in Requests |-> <<>>]
    /\ qerr = [r \in Requests |-> "none"]
    /\ qres = [r \in Requests |-> NoResponse]

\* The platform asks for rates at checkout.
QuoteRequest(r) ==
    /\ qpc[r] = "idle"
    /\ \E shop \in Shops, items \in Carts :
        qreq' = [qreq EXCEPT ![r] = [shop |-> shop, items |-> items]]
    /\ qpc' = [qpc EXCEPT ![r] = "getStore"]
    /\ UNCHANGED <<serviceLevels, qlevels, qrates, qcalc, qerr, qres, hvars, fvars, pvars, ovars, uvars>>

\* const retailer = await deliveright.getStore(IDENTIFIER); a rejection goes
\* to the outer catch.  The offline-session block that follows swallows its
\* own errors.
QuoteGetStore(r) ==
    /\ qpc[r] = "getStore"
    /\ \E ok \in BOOLEAN :
        IF ok
        THEN /\ qpc' = [qpc EXCEPT ![r] = "filter"]
             /\ UNCHANGED <<qres, qerr>>
        ELSE /\ qpc' = [qpc EXCEPT ![r] = "done"]
             /\ qerr' = [qerr EXCEPT ![r] = "getStore"]
             /\ qres' = [qres EXCEPT ![r] = sendError]
    /\ UNCHANGED <<serviceLevels, qreq, qlevels, qrates, qcalc, hvars, fvars, pvars, ovars, uvars>>

\* filtered_items = await filterDeliverightProducts(...), then the loop up to
\* its first await, or the response when nothing is left to calculate.
QuoteFilter(r) ==
    /\ qpc[r] = "filter"
    /\ \E fetchOk \in BOOLEAN :
        LET items == [i \in 1..Len(qreq[r].items) |->
                         [product_id |-> qreq[r].items[i], tags |-> <<>>]]
            f == filterDeliverightProducts(StoreCatalog, fetchOk, items)
            service_levels ==
                IF Len(f.value) > 0 THEN Distinct(flatTags(f.value)) ELSE <<>>
            todo == skipUnsupported(service_levels)
        IN IF f.threw
           THEN /\ qpc' = [qpc EXCEPT ![r] = "done"]
                /\ qerr' = [qerr EXCEPT ![r] = "filter"]
                /\ qres' = [qres EXCEPT ![r] = sendError]
                /\ UNCHANGED qlevels
           ELSE /\ qlevels' = [qlevels EXCEPT ![r] = todo]
                /\ UNCHANGED qerr
                /\ IF todo = <<>>
                   THEN /\ qpc' = [qpc EXCEPT ![r] = "done"]
                        /\ qres' = [qres EXCEPT ![r] = sendRates(<<>>, serviceLevels)]
                   ELSE /\ qpc' = [qpc EXCEPT ![r] = "calc"]
                        /\ UNCHANGED qres
    /\ UNCHANGED <<serviceLevels, qreq, qrates, qcalc, hvars, fvars, pvars, ovars, uvars>>

\* The awaited calculateShippingRate settles: totalPrice stays null when it
\* rejected; the catalog entry is annotated and pushed; the loop runs on.
annotate(r, s, c) ==
    /\ serviceLevels' = [serviceLevels EXCEPT ![s] = c.value]
    /\ qrates' = [qrates EXCEPT ![r] = Append(@, s)]

\* Mutant: no try/catch around the calculation -- a rejection reaches the
\* outer catch.
QuoteCalc_NoInnerCatch(r) ==
    /\ qpc[r] = "calc"
    /\ \E outcome \in RateOutcomes :
        LET s == qlevels[r][1]
            c == calculateShippingRate(outcome)
            todo == skipUnsupported(Tail(qlevels[r]))
        IN /\ qcalc' = [qcalc EXCEPT ![r] =
                           Append(@, [level |-> s, threw |-> c.threw, value |-> c.value])]
           /\ IF c.threw
              THEN /\ qpc' = [qpc EXCEPT ![r] = "done"]
                   /\ qerr' = [qerr EXCEPT ![r] = "calc"]
                   /\ qres' = [qres EXCEPT ![r] = sendError]
                   /\ UNCHANGED <<serviceLevels, qrates, qlevels>>
              ELSE /\ annotate(r, s, c)
                   /\ qlevels' = [qlevels EXCEPT ![r] = todo]
                   /\ UNCHANGED qerr
                   /\ IF todo = <<>>
                      THEN /\ qpc' = [qpc EXCEPT ![r] = "done"]
                           /\ qres' = [qres EXCEPT ![r] = sendRates(qrates'[r], serviceLevels')]
                      ELSE UNCHANGED <<qpc, qres>>
    /\ UNCHANGED <<qreq, hvars, fvars, pvars, ovars, uvars>>

\* Mutant: a level whose calculation rejected is skipped (continue in the
\* catch block).
QuoteCalc_OmitFailed(r) ==
    /\ qpc[r] = "calc"
    /\ \E outcome \in RateOutcomes :
        LET s == qlevels[r][1]
            c == calculateShippingRate(outcome)
            todo == skipUnsupported(Tail(qlevels[r]))
        IN /\ qcalc' = [qcalc EXCEPT ![r] =
                           Append(@, [level |-> s, threw |-> c.threw, value |-> c.value])]
           /\ IF c.threw THEN UNCHANGED <<serviceLevels, qrates>> ELSE annotate(r, s, c)
           /\ qlevels' = [qlevels EXCEPT ![r] = todo]
           /\ IF todo = <<>>
              THEN /\ qpc' = [qpc EXCEPT ![r] = "done"]
                   /\ qres' = [qres EXCEPT ![r] = sendRates(qrates'[r], serviceLevels')]
              ELSE UNCHANGED <<qpc, qres>>
    /\ UNCHANGED <<qreq, qerr, hvars, fvars, pvars, ovars, uvars>>

QuoteCalc(r) ==
    /\ qpc[r] = "calc"
    /\ \E outcome \in RateOutcomes :
        LET s == qlevels[r][1]
            c == calculateShippingRate(outcome)
            todo == skipUnsupported(Tail(qlevels[r]))
        IN /\ annotate(r, s, c)
           /\ qcalc' = [qcalc EXCEPT ![r] =
                           Append(@, [level |-> s, threw |-> c.threw, value |-> c.value])]
           /\ qlevels' = [qlevels EXCEPT ![r] = todo]
           /\ IF todo = <<>>
              THEN /\ qpc' = [qpc EXCEPT ![r] = "done"]
                   /\ qres' = [qres EXCEPT ![r] = sendRates(qrates'[r], serviceLevels')]
              ELSE UNCHANGED <<qpc, qres>>
    /\ UNCHANGED <<qreq, qerr, hvars, fvars, pvars, ovars, uvars>>

(***************************************************************************)
(* Price strategy engine: sumAccessorials, getPriceByPaymentType,          *)
(* formatPrice, and the settlement of calculateShippingRate                *)
(***************************************************************************)
\* JavaScript values a price can be besides a number.  Numbers are exact:
\* an integer is Num(n), any other quotient n/d is a "ratio" in lowest terms.
Undefined == [t |-> "undefined"]
NaN == [t |-> "nan"]

Abs(n) == IF n < 0 THEN -n ELSE n

RECURSIVE Gcd(_, _)
Gcd(a, b) == IF b = 0 THEN a ELSE Gcd(b, a % b)

Ratio(n, d) ==
    IF n % d = 0 THEN Num(n \div d)
    ELSE LET g == Gcd(Abs(n), d) IN [t |-> "ratio", n |-> n \div g, d |-> d \div g]

IsNumber(x) == x.t \in {"num", "ratio"}
Numer(x) == IF x.t = "num" THEN x.v ELSE x.n
Denom(x) == IF x.t = "num" THEN 1 ELSE x.d

Mul(x, k) == Ratio(Numer(x) * k, Denom(x))
Div(x, k) == Ratio(Numer(x), Denom(x) * k)
Sub(x, y) == Ratio(Numer(x) * Denom(y) - Numer(y) * Denom(x), Denom(x) * Denom(y))
Less(x, y) == Numer(x) * Denom(y) < Numer(y) * Denom(x)

\* config.paymentStrategies
PAID_BY_CUSTOMER == 0
PAID_BY_SHIPPER == 1
SPLIT == 2
FIXED == 3
ROUND_NEAREST_NUMBER == 4

\* let diff = 100000 in the ROUND_NEAREST_NUMBER case
InitialDiff == 100000

\* _.sumBy(_.toArray(shippingResult.accessorial_fees), "cost")
RECURSIVE sumBy(_)
sumBy(fees) == IF fees = <<>> THEN 0 ELSE fees[1] + sumBy(Tail(fees))

sumAccessorials(shippingResult) ==
    Num(shippingResult.cost + sumBy(shippingResult.accessorial_fees))

\* The body of round_nearest.map: p and diff after the first i values.
RECURSIVE roundNearest(_, _, _)
roundNearest(price, nums, i) ==
    IF i = 0 THEN [p |-> Undefined, diff |-> Num(InitialDiff)]
    ELSE LET before == roundNearest(price, nums, i - 1)
             num == Num(nums[i])
         IN IF Less(price, num) /\ Less(Sub(num, price), before.diff)
            THEN [p |-> num, diff |-> Sub(num, price)]
            ELSE before

\* Mutant: SPLIT charges the customer the merchant's share.
getPriceByPaymentType_MerchantShare(price, settings) ==
    CASE settings.payment.type = PAID_BY_CUSTOMER -> price
      [] settings.payment.type = PAID_BY_SHIPPER -> Num(0)
      [] settings.payment.type = SPLIT ->
            Mul(Div(price, 100), settings.payment.split_ratio)
      [] settings.payment.type = FIXED ->
            Sub(price, Num(settings.payment.fixed * 100))
      [] settings.payment.type = ROUND_NEAREST_NUMBER ->
            LET r == roundNearest(price, settings.payment.round_nearest,
                                  Len(settings.payment.round_nearest))
            IN IF r.p = Undefined \/ r.p = Num(0) THEN price ELSE r.p
      [] OTHER -> Undefined

\* getPriceByPaymentType: a switch without a default case.
getPriceByPaymentType(price, settings) ==
    CASE settings.payment.type = PAID_BY_CUSTOMER -> price
      [] settings.payment.type = PAID_BY_SHIPPER -> Num(0)
      [] settings.payment.type = SPLIT ->
            Mul(Div(price, 100), 100 - settings.payment.split_ratio)
      [] settings.payment.type = FIXED ->
            Sub(price, Num(settings.payment.fixed * 100))
      [] settings.payment.type = ROUND_NEAREST_NUMBER ->
            LET r == roundNearest(price, settings.payment.round_nearest,
                                  Len(settings.payment.round_nearest))
            IN IF r.p = Undefined \/ r.p = Num(0) THEN price ELSE r.p
      [] OTHER -> Undefined

\* _.min([price, amount]): values that are null or undefined are skipped.
lodashMin(price, amount) ==
    IF price = Undefined THEN amount
    ELSE IF Less(amount, price) THEN amount ELSE price

\* price * 100 in JavaScript: undefined * 100 is NaN.
times100(price) == IF price = Undefined THEN NaN ELSE Mul(price, 100)

\* Mutant: the ceiling is not applied.
formatPrice_NoCeiling(price, settings) == times100(price)

\* formatPrice: an amount of 0 (or none) is falsy and counts as not set.
formatPrice(price, settings) ==
    IF settings.payment.limit.active /\ settings.payment.limit.amount # 0
    THEN times100(lodashMin(price, Num(settings.payment.limit.amount)))
    ELSE times100(price)

\* The .then branch of calculateShippingRate: reject on an error code or a
\* missing (or zero) cost, else resolve the formatted price.
settleShippingRate(shippingResult, settings) ==
    IF shippingResult.errorCode \/ shippingResult.cost = 0
    THEN [threw |-> TRUE, value |-> Null]
    ELSE [threw |-> FALSE,
          value |-> formatPrice(
                        getPriceByPaymentType(sumAccessorials(shippingResult), settings),
                        settings)]

\* let totalPrice = null; try { totalPrice = await calculateShippingRate(...) }
\* catch (err) { }  -- what the quote endpoint takes as the level's price.
totalPriceOf(settled) == IF settled.threw THEN Null ELSE settled.value

\* Inputs of the price computation.
Costs == {0, 1, 8000, 8700, 9500, 12000}
FeeLists == {<<>>, <<1500, 500>>}
PaymentTypes == 0..5
SplitRatios == {0, 30, 50, 100}
FixedFees == {0, 99, 200}
RoundLists == {<<>>, <<9000, 9500, 10000>>, <<10000, 9000>>, <<200000>>, <<9000, 200000>>}
LimitAmounts == {0, 100, 10000}

ShippingResults == [errorCode : BOOLEAN, cost : Costs, accessorial_fees : FeeLists]
Settings ==
    [payment : [type : PaymentTypes, split_ratio : SplitRatios, fixed : FixedFees,
                round_nearest : RoundLists,
                limit : [active : BOOLEAN, amount : LimitAmounts]]]

NoPrice == [done |-> FALSE, price |-> Undefined, strategy |-> Undefined,
            formatted |-> Undefined, totalPrice |-> Null]

InitPrice ==
    /\ pin \in [shippingResult : ShippingResults, settings : Settings]
    /\ pout = NoPrice

InertPrice ==
    /\ pin = [shippingResult |-> [errorCode |-> TRUE, cost |-> 0, accessorial_fees |-> <<>>],
              settings |-> [payment |-> [type |-> 0, split_ratio |-> 0, fixed |-> 0,
                                         round_nearest |-> <<>>,
                                         limit |-> [active |-> FALSE, amount |-> 0]]]]
    /\ pout = NoPrice

RunPrice ==
    /\ ~pout.done
    /\ LET price == sumAccessorials(pin.shippingResult)
           strategy == getPriceByPaymentType(price, pin.settings)
       IN pout' = [done |-> TRUE,
                   price |-> price,
                   strategy |-> strategy,
                   formatted |-> formatPrice(strategy, pin.settings),
                   totalPrice |-> totalPriceOf(settleShippingRate(pin.shippingResult, pin.settings))]
    /\ UNCHANGED <<pin, hvars, fvars, qvars, ovars, uvars>>

(***************************************************************************)
(* Origin resolution of one line item in createDeliverightOrder            *)
(***************************************************************************)
\* A field that is absent, null or empty is "" here: the code only tests
\* fields for truthiness.
NoOrigin ==
    [address1 |-> "", address2 |-> "", city |-> "", province_code |-> "",
     zip |-> "", name |-> "", phone |-> ""]
CompleteOrigin ==
    [address1 |-> "1 Dock St", address2 |-> "", city |-> "Newark",
     province_code |-> "NJ", zip |-> "07101", name |-> "Vendor Dock",
     phone |-> "555-0100"]
LineItemOrigins ==
    {NoOrigin, CompleteOrigin,
     [CompleteOrigin EXCEPT !.address2 = "Bay 4"],
     [CompleteOrigin EXCEPT !.phone = ""],
     [CompleteOrigin EXCEPT !.name = ""],
     [NoOrigin EXCEPT !.name = "Main Store"]}

\* The line item under resolution, and the fulfillments of the order.
LineItemId == 1
Fulfillment(items, location_id) == [line_items |-> items, location_id |-> location_id]
FulfillmentLists ==
    {<<>>,
     <<Fulfillment({1}, 7)>>,
     <<Fulfillment({1}, 0)>>,
     <<Fulfillment({1}, 0), Fulfillment({1}, 7)>>,
     <<Fulfillment({2}, 7)>>,
     <<Fulfillment({2}, 8), Fulfillment({1, 2}, 7)>>}

\* What the platform answers to a location query.
NoAddress ==
    [present |-> FALSE, address1 |-> "", address2 |-> "", city |-> "",
     provinceCode |-> "", zip |-> "", phone |-> ""]
FullAddress ==
    [present |-> TRUE, address1 |-> "9 Depot Rd", address2 |-> "Unit 2",
     city |-> "Trenton", provinceCode |-> "NJ", zip |-> "08601",
     phone |-> "555-0199"]
NoLocation == [found |-> FALSE, name |-> "", address |-> NoAddress]
Location(name, address) == [found |-> TRUE, name |-> name, address |-> address]
Warehouse == Location("Warehouse", FullAddress)
Locations ==
    {Warehouse,
     Location("", FullAddress),
     Location("Kiosk", [FullAddress EXCEPT !.phone = ""]),
     Location("Annex", [FullAddress EXCEPT !.provinceCode = ""]),
     Location("Depot", [FullAddress EXCEPT !.address2 = ""]),
     Location("Ghost", NoAddress)}
LookupOutcomes ==
    {[threw |-> TRUE, location |-> NoLocation], [threw |-> FALSE, location |-> NoLocation]}
        \cup {[threw |-> FALSE, location |-> l] : l \in Locations}
ListOutcomes ==
    {[threw |-> TRUE, locations |-> <<>>]}
        \cup {[threw |-> FALSE, locations |-> ls] :
                ls \in {<<>>,
                        <<Location("Kiosk", [FullAddress EXCEPT !.phone = ""])>>,
                        <<Location("Kiosk", [FullAddress EXCEPT !.phone = ""]), Warehouse>>,
                        <<Location("Annex", [FullAddress EXCEPT !.provinceCode = ""])>>,
                        <<Location("Ghost", NoAddress), Warehouse>>,
                        <<Location("Ghost", NoAddress)>>,
                        <<Location("Shed", [FullAddress EXCEPT !.city = "", !.phone = ""]),
                          Location("Kiosk", [FullAddress EXCEPT !.phone = ""])>>}}

hasValidOrigin(o) ==
    /\ o.address1 # ""
    /\ o.city # ""
    /\ o.province_code # ""
    /\ o.zip # ""
    /\ o.name # ""
    /\ o.phone # ""

\* data.fulfillments?.find(f => f.line_items?.some(li => li.id === line_item?.id))
findFulfillment(fulfillments) ==
    LET hits == {i \in 1..Len(fulfillments) : LineItemId \in fulfillments[i].line_items}
    IN IF hits = {} THEN Fulfillment({}, 0)
       ELSE fulfillments[CHOOSE i \in hits : \A j \in hits : i <= j]

\* Tier 2: the origin built from the fulfillment's location.
mapLocation(l) ==
    [address1 |-> l.address.address1, address2 |-> l.address.address2,
     city |-> l.address.city, province_code |-> l.address.provinceCode,
     zip |-> l.address.zip, name |-> l.name, phone |-> l.address.phone]

mappedIsComplete(o) ==
    /\ o.address1 # ""
    /\ o.city # ""
    /\ o.province_code # ""
    /\ o.zip # ""
    /\ o.phone # ""

\* Mutant: the first location is taken whether or not a later one is complete.
findDefaultLocation_FirstAlways(locations) ==
    IF locations # <<>> THEN locations[1] ELSE NoLocation

\* Tier 3: locations.find(complete) || locations[0]
findDefaultLocation(locations) ==
    LET ok == {i \in 1..Len(locations) :
                 /\ locations[i].address.present
                 /\ locations[i].address.address1 # ""
                 /\ locations[i].address.city # ""
                 /\ locations[i].address.zip # ""
                 /\ locations[i].address.phone # ""}
    IN IF ok # {} THEN locations[CHOOSE i \in ok : \A j \in ok : i <= j]
       ELSE IF locations # <<>> THEN locations[1]
       ELSE NoLocation

\* Tier 3: the origin built from the default location.
mapDefaultLocation(l) ==
    [address1 |-> l.address.address1, address2 |-> l.address.address2,
     city |-> IF l.address.city = "" THEN " " ELSE l.address.city,
     province_code |-> l.address.provinceCode,
     zip |-> l.address.zip, name |-> l.name, phone |-> l.address.phone]

NoOriginInput ==
    [origin |-> NoOrigin, fulfillments |-> <<>>,
     lookup |-> [threw |-> TRUE, location |-> NoLocation],
     list |-> [threw |-> TRUE, locations |-> <<>>]]

InitOrigin ==
    /\ oin \in [origin : LineItemOrigins, fulfillments : FulfillmentLists,
                lookup : LookupOutcomes, list : ListOutcomes]
    /\ opc = "start"
    /\ origin_location = NoOrigin
    /\ location = NoLocation
    /\ oqueries = <<>>

InertOrigin ==
    /\ oin = NoOriginInput
    /\ opc = "off"
    /\ origin_location = NoOrigin
    /\ location = NoLocation
    /\ oqueries = <<>>

\* Mutant: the line item's own origin is never trusted.
ResolveStart_AlwaysResolve ==
    /\ opc = "start"
    /\ origin_location' = oin.origin
    /\ location' = NoLocation
    /\ opc' = IF findFulfillment(oin.fulfillments).location_id # 0
              THEN "lookup" ELSE "list"
    /\ UNCHANGED <<oin, oqueries, hvars, fvars, qvars, pvars, uvars>>

\* Lines 827-852: tier 1, then the choice of the fulfillment to look up.
ResolveStart ==
    /\ opc = "start"
    /\ origin_location' = oin.origin
    /\ location' = NoLocation
    /\ opc' = IF hasValidOrigin(oin.origin) THEN "done"
              ELSE IF findFulfillment(oin.fulfillments).location_id # 0
                   THEN "lookup" ELSE "list"
    /\ UNCHANGED <<oin, oqueries, hvars, fvars, qvars, pvars, uvars>>

\* Mutant: the mapped location is never accepted.
ResolveLookup_AlwaysFallback ==
    /\ opc = "lookup"
    /\ oqueries' = Append(oqueries,
                          [query |-> "location",
                           id |-> findFulfillment(oin.fulfillments).location_id])
    /\ IF oin.lookup.threw \/ ~oin.lookup.location.found
       THEN UNCHANGED <<origin_location, location>>
       ELSE IF ~oin.lookup.location.address.present
            THEN location' = oin.lookup.location /\ UNCHANGED origin_location
            ELSE /\ origin_location' = mapLocation(oin.lookup.location)
                 /\ location' = NoLocation
    /\ opc' = IF location'.found THEN "done" ELSE "list"
    /\ UNCHANGED <<oin, hvars, fvars, qvars, pvars, uvars>>

\* Lines 857-922: tier 2.  A location whose address is null makes the mapping
\* throw after `location` was assigned: the catch leaves it set.
ResolveLookup ==
    /\ opc = "lookup"
    /\ oqueries' = Append(oqueries,
                          [query |-> "location",
                           id |-> findFulfillment(oin.fulfillments).location_id])
    /\ IF oin.lookup.threw \/ ~oin.lookup.location.found
       THEN UNCHANGED <<origin_location, location>>
       ELSE IF ~oin.lookup.location.address.present
            THEN location' = oin.lookup.location /\ UNCHANGED origin_location
            ELSE /\ origin_location' = mapLocation(oin.lookup.location)
                 /\ location' = IF mappedIsComplete(mapLocation(oin.lookup.location))
                                THEN oin.lookup.location ELSE NoLocation
    /\ opc' = IF location'.found THEN "done" ELSE "list"
    /\ UNCHANGED <<oin, hvars, fvars, qvars, pvars, uvars>>

\* Mutant: without a default location the origin is reset to an empty one.
ResolveList_ResetOnEmpty ==
    /\ opc = "list"
    /\ oqueries' = Append(oqueries, [query |-> "locations", id |-> 0])
    /\ LET defaultLocation == findDefaultLocation(oin.list.locations)
       IN IF oin.list.threw \/ ~defaultLocation.found \/ ~defaultLocation.address.present
          THEN origin_location' = NoOrigin
          ELSE origin_location' = mapDefaultLocation(defaultLocation)
    /\ opc' = "done"
    /\ UNCHANGED <<oin, location, hvars, fvars, qvars, pvars, uvars>>

\* Lines 930-985: tier 3.
ResolveList ==
    /\ opc = "list"
    /\ oqueries' = Append(oqueries, [query |-> "locations", id |-> 0])
    /\ LET defaultLocation == findDefaultLocation(oin.list.locations)
       IN IF oin.list.threw \/ ~defaultLocation.found \/ ~defaultLocation.address.present
          THEN UNCHANGED origin_location
          ELSE origin_location' = mapDefaultLocation(defaultLocation)
    /\ opc' = "done"
    /\ UNCHANGED <<oin, location, hvars, fvars, qvars, pvars, uvars>>

(***************************************************************************)
(* update_line_items_location, and the way of a line item from the event   *)
(* to the transformer                                                      *)
(***************************************************************************)
\* payload.line_items: the ids of the event's line items.
ItemIds == {1, 2}
NumFulfillments == 2

\* origin_location of a payload line item: the object that came with the
\* event, or the GraphQL location object the update assigned
\* ({id, name, address {address1, city, provinceCode, zip}}).
EventOrigin(o) == [shape |-> "event", origin |-> o, loc |-> NoLocation]
GraphOrigin(l) == [shape |-> "graphql", origin |-> NoOrigin, loc |-> l]

\* What createDeliverightOrder reads from such an object: the GraphQL object
\* has name at the top level and everything else under address.
originView(x) ==
    IF x.shape = "event" THEN x.origin ELSE [NoOrigin EXCEPT !.name = x.loc.name]

Depot == Location("Depot", [FullAddress EXCEPT !.address1 = "4 Quay Rd", !.address2 = ""])

\* A fulfillment of the event, with the answer its location query will get.
EventFulfillment(items, location_id, status, answer) ==
    [line_items |-> items, location_id |-> location_id, status |-> status,
     answer |-> answer]
Answers(l) == [threw |-> FALSE, location |-> l]
QueryFails == [threw |-> TRUE, location |-> NoLocation]

EventFulfillmentLists ==
    {<<>>,
     <<EventFulfillment({1, 2}, 7, "success", Answers(Warehouse))>>,
     <<EventFulfillment({1}, 7, "success", Answers(Warehouse)),
       EventFulfillment({2}, 8, "success", Answers(Depot))>>,
     <<EventFulfillment({1}, 7, "success", Answers(Warehouse)),
       EventFulfillment({1, 2}, 8, "success", Answers(Depot))>>,
     <<EventFulfillment({1}, 7, "cancelled", Answers(Warehouse)),
       EventFulfillment({1}, 8, "success", Answers(Depot))>>,
     <<EventFulfillment({1}, 0, "success", Answers(NoLocation)),
       EventFulfillment({2, 3}, 9, "success", Answers(NoLocation))>>,
     <<EventFulfillment({1}, 7, "success", QueryFails),
       EventFulfillment({1, 3}, 8, "success", Answers(Depot))>>}

EventOrigins == {NoOrigin, CompleteOrigin, [CompleteOrigin EXCEPT !.phone = ""]}

NoUpdateInput == [origin |-> NoOrigin, fulfillments |-> <<>>]

InitLocate ==
    /\ uin \in [origin : EventOrigins, fulfillments : EventFulfillmentLists]
    /\ upc = [i \in 1..NumFulfillments |-> "idle"]
    /\ uorigin = [li \in ItemIds |-> EventOrigin(IF li = LineItemId THEN uin.origin ELSE NoOrigin)]

InertLocate ==
    /\ uin = NoUpdateInput
    /\ upc = [i \in 1..NumFulfillments |-> "off"]
    /\ uorigin = [li \in ItemIds |-> EventOrigin(NoOrigin)]

\* Lines 15-52: Promise.all over the successful fulfillments; each task runs
\* up to its await -- it returns at once without a location_id, else it issues
\* its query.
StartLocationUpdates ==
    /\ \A i \in 1..NumFulfillments : upc[i] = "idle"
    /\ upc' = [i \in 1..NumFulfillments |->
                  IF i > Len(uin.fulfillments) THEN "none"
                  ELSE IF uin.fulfillments[i].status # "success" THEN "skipped"
                  ELSE IF uin.fulfillments[i].location_id = 0 THEN "done"
                  ELSE "query"]
    /\ UNCHANGED <<uin, uorigin, hvars, fvars, qvars, pvars, ovars>>

\* Lines 54-83: the query of task i settles; a location that was found is
\* assigned to every payload line item of the fulfillment.
CompleteLocationQuery(i) ==
    /\ upc[i] = "query"
    /\ upc' = [upc EXCEPT ![i] = "done"]
    /\ LET f == uin.fulfillments[i]
       IN IF f.answer.threw \/ ~f.answer.location.found
          THEN UNCHANGED uorigin
          ELSE uorigin' = [li \in ItemIds |->
                              IF li \in f.line_items THEN GraphOrigin(f.answer.location)
                              ELSE uorigin[li]]
    /\ UNCHANGED <<uin, hvars, fvars, qvars, pvars, ovars>>

AllSettled == \A i \in 1..NumFulfillments : upc[i] \in {"none", "skipped", "done"}

\* data.fulfillments as createDeliverightOrder searches them.
asFulfillments(fs) ==
    [i \in 1..Len(fs) |-> Fulfillment(fs[i].line_items, fs[i].location_id)]

\* The callback goes on (the filter returns every item with its
\* origin_location, or throws and leaves the payload as it is) and newOrder
\* hands the payload to createDeliverightOrder, whose loop reaches the line
\* item; its two queries get the answers drawn here.
HandOver ==
    /\ AllSettled
    /\ opc = "wait"
    /\ \E lookup \in LookupOutcomes, list \in ListOutcomes :
        oin' = [origin |-> originView(uorigin[LineItemId]),
                fulfillments |-> asFulfillments(uin.fulfillments),
                lookup |-> lookup, list |-> list]
    /\ opc' = "start"
    /\ UNCHANGED <<origin_location, location, oqueries, uvars, hvars, fvars, qvars, pvars>>

\* Lines 996-1013: the vendor data of drl_item.
vendor_info(o) ==
    [address |-> [address1 |-> o.address1, address2 |-> o.address2, city |-> o.city,
                  state |-> o.province_code, zip |-> o.zip],
     company |-> o.name,
     phone |-> o.phone]

InitPipelineOrigin ==
    /\ oin = NoOriginInput
    /\ opc = "wait"
    /\ origin_location = NoOrigin
    /\ location = NoLocation
    /\ oqueries = <<>>

(***************************************************************************)
(* Specifications                                                          *)
(***************************************************************************)
Init == InitHandler /\ InertFilter /\ InertQuote /\ InertPrice /\ InertOrigin /\ InertLocate

Next == \E d \in Deliveries : Deliver(d) \/ orders_fulfilled_callback(d)

Spec == Init /\ [][Next]_vars

InitF == InertHandler /\ InitFilter /\ InertQuote /\ InertPrice /\ InertOrigin /\ InertLocate
NextF == RunFilter
SpecFilter == InitF /\ [][NextF]_vars

InitQ == InertHandler /\ InertFilter /\ InitQuote /\ InertPrice /\ InertOrigin /\ InertLocate
NextQ ==
    \E r \in Requests :
        \/ QuoteRequest(r)
        \/ QuoteGetStore(r)
        \/ QuoteFilter(r)
        \/ QuoteCalc(r)
SpecQuote == InitQ /\ [][NextQ]_vars

InitP == InertHandler /\ InertFilter /\ InertQuote /\ InitPrice /\ InertOrigin /\ InertLocate
NextP == RunPrice
SpecPrice == InitP /\ [][NextP]_vars

InitO == InertHandler /\ InertFilter /\ InertQuote /\ InertPrice /\ InitOrigin /\ InertLocate
NextO ==
    \/ ResolveStart
    \/ ResolveLookup
    \/ ResolveList
SpecOrigin == InitO /\ [][NextO]_vars

InitL == InertHandler /\ InertFilter /\ InertQuote /\ InertPrice /\ InitPipelineOrigin /\ InitLocate
NextL ==
    \/ StartLocationUpdates
    \/ \E i \in 1..NumFulfillments : CompleteLocationQuery(i)
    \/ HandOver
    \/ ResolveStart
    \/ ResolveLookup
    \/ ResolveList
SpecLocate == InitL /\ [][NextL]_vars

(***************************************************************************)
(* Properties                                                              *)
(***************************************************************************)
Has(d, step) == \E i \in 1..Len(hsteps[d]) : hsteps[d][i] = step
Code(d) == OrderBook[hev[d].id].code
Claimed(k) == {d \in Deliveries : hev[d].parses /\ Key(d) = k /\ hisNew[d] = "true"}

\* C1: for every (tenant, order id), over any sequential or interleaved
\* deliveries of its fulfillment event, at most one provider POST is attempted.
C1_AtMostOneSubmission == \A k \in Keys : posts[k] <= 1

C1_Witness ==
    \E d1, d2 \in Deliveries :
        /\ hpc[d1] = "SUBMITTED" /\ hpc[d2] = "DUPLICATE"
        /\ Key(d1) = Key(d2)
        /\ posts[Key(d1)] = 1

\* C2: for every key exactly one markIfNew call resolves true, the one that
\* creates the row; every other call that returns resolves false, and only
\* when the row exists; rows are never removed.
C2_State ==
    /\ \A k \in Keys : Cardinality(Claimed(k)) = IF k \in ledger THEN 1 ELSE 0
    /\ \A d \in Deliveries : hisNew[d] = "false" => Key(d) \in ledger

C2_Step ==
    /\ ledger \subseteq ledger'
    /\ \A d \in Deliveries :
          hisNew'[d] # hisNew[d] =>
              /\ hisNew'[d] = "true" <=> (Key(d) \notin ledger /\ Key(d) \in ledger')
              /\ hisNew'[d] = "false" <=> (Key(d) \in ledger /\ ledger' = ledger)

C2_ExactlyOneTrue == []C2_State /\ [][C2_Step]_vars

C2_Witness ==
    \E d1, d2 \in Deliveries :
        /\ hisNew[d1] = "true" /\ hisNew[d2] = "false"
        /\ Key(d1) = Key(d2)

\* C3: an event redelivered for an order whose earlier submission failed
\* leads to a new submission attempt (it is not dropped as a duplicate).
C3_RedeliveryRetries ==
    \A d \in Deliveries : hredelivery[d] => hpc[d] # "DUPLICATE"

\* C4 (as claimed): a ledger record implies a completed submission.
C4_RecordImpliesSubmitted == ledger \subseteq submitted

\* C4 (amended): a submission, attempted or completed, implies the ledger
\* record; the record itself only says that one invocation claimed the order.
C4_SubmissionImpliesRecord ==
    /\ \A k \in Keys : (posts[k] > 0 \/ k \in submitted \/ k \in postFailed) => k \in ledger
    /\ \A k \in ledger : Claimed(k) # {}

C4_Witness ==
    \E k \in Keys : k \in ledger /\ k \in submitted /\ posts[k] = 1

\* C5: an invocation whose conditional insert failed with a storage error
\* ends FAILED without transformation and without provider submission.
C5_LedgerErrorFailsClosed ==
    \A d \in Deliveries :
        Has(d, "ledger_error") =>
            /\ hpc[d] = "FAILED"
            /\ hisNew[d] = "none"
            /\ ~Has(d, "transformed") /\ ~Has(d, "transform_failed")
            /\ ~Has(d, "post_ok") /\ ~Has(d, "post_failed")

C5_Witness ==
    \E d \in Deliveries : Has(d, "ledger_error") /\ hpc[d] = "FAILED" /\ posts[Key(d)] = 0

\* C6: an event whose first shipping-line code is not a configured service
\* level (or is missing) is REJECTED once classified: no ledger write, no
\* transformation, no submission.
C6_UnknownCodeRejected ==
    \A d \in Deliveries :
        (/\ hev[d].parses
         /\ ~serviceLevelMember(Code(d))
         /\ hsteps[d] # <<>>
         /\ hsteps[d][1] # "getStore_failed")
        => (hpc[d] = "REJECTED" /\ hsteps[d] = <<"rejected">>)

\* C7: the filter retains exactly the items whose product has a tag that is a
\* configured service-level code.
Eligible(item) ==
    /\ fin.catalog[item.product_id] # NotFound
    /\ \E i \in 1..Len(fin.catalog[item.product_id]) :
          fin.catalog[item.product_id][i] \in level_codes

C7_RetainsExactlyEligible ==
    (fout.done /\ ~fout.threw) =>
        [i \in 1..Len(fout.value) |-> fout.value[i].product_id]
            = [i \in 1..Len(SelectSeq(fin.items, Eligible)) |->
                  SelectSeq(fin.items, Eligible)[i].product_id]

\* C8: every returned item carries a non-empty tags field equal to the
\* intersection of its product's tags with the service-level codes.
C8_TagsAreIntersection ==
    (fout.done /\ ~fout.threw) =>
        \A i \in 1..Len(fout.value) :
            /\ fout.value[i].tags # <<>>
            /\ fout.value[i].tags =
                  SelectSeq(fin.catalog[fout.value[i].product_id],
                            LAMBDA t : t \in level_codes)

\* C9 (as claimed): every quote request is answered with HTTP 200.
C9_Always200 == \A r \in Requests : qres[r].sent => qres[r].status = 200

\* C9 (amended): 200 unless the store lookup or the filter failed, which give
\* 400; a failed rate calculation never gives a non-200 response.
C9_StatusByFailure ==
    \A r \in Requests :
        qres[r].sent =>
            /\ qres[r].status \in {200, 400}
            /\ qres[r].status = 400 <=> qerr[r] \in {"getStore", "filter"}
            /\ (\E i \in 1..Len(qcalc[r]) : qcalc[r][i].threw) => qres[r].status = 200

C9_Witness ==
    \E r \in Requests :
        /\ qres[r].sent /\ qres[r].status = 200
        /\ \E i \in 1..Len(qcalc[r]) : qcalc[r][i].threw

\* C10 (as claimed): every entry of rates belongs to a level whose
\* calculation succeeded.
C10_FailedLevelOmitted ==
    \A r \in Requests :
        (qres[r].sent /\ qres[r].status = 200) =>
            \A i \in 1..Len(qres[r].rates) :
                \E j \in 1..Len(qcalc[r]) :
                    /\ qcalc[r][j].level = qres[r].rates[i].service_code
                    /\ ~qcalc[r][j].threw

\* C10 (amended): rates has one entry for every level a calculation was
\* attempted for, failed or not, and the request sets the total_price of a
\* level whose calculation failed to null.
C10_State ==
    \A r \in Requests :
        (qres[r].sent /\ qres[r].status = 200) =>
            [i \in 1..Len(qres[r].rates) |-> qres[r].rates[i].service_code]
                = [j \in 1..Len(qcalc[r]) |-> qcalc[r][j].level]

C10_Step ==
    \A r \in Requests :
        qcalc'[r] # qcalc[r] =>
            LET c == qcalc'[r][Len(qcalc'[r])]
            IN /\ serviceLevels'[c.level] = c.value
               /\ c.threw => c.value = Null

C10_FailedLevelKept == []C10_State /\ [][C10_Step]_vars

C10_Witness ==
    \E r \in Requests :
        /\ qres[r].sent /\ qres[r].status = 200
        /\ \E i \in 1..Len(qres[r].rates), j \in 1..Len(qcalc[r]) :
              /\ qcalc[r][j].level = qres[r].rates[i].service_code
              /\ qcalc[r][j].threw

\* The value request r computed for the level of its j-th calculation.
Computed(r, j) == IF qcalc[r][j].threw THEN Null ELSE qcalc[r][j].value

\* C11: in every 200 response, each level whose own calculation succeeded in
\* that request appears in the rates with the total_price that calculation
\* resolved, whatever happened to the other levels.
C11_SucceededLevelsReturned ==
    \A r \in Requests :
        (qres[r].sent /\ qres[r].status = 200) =>
            \A j \in 1..Len(qcalc[r]) :
                ~qcalc[r][j].threw =>
                    \E i \in 1..Len(qres[r].rates) :
                        /\ qres[r].rates[i].service_code = qcalc[r][j].level
                        /\ qres[r].rates[i].total_price = qcalc[r][j].value

\* The configured values strictly greater than the price.
GreaterValues(price, nums) ==
    {nums[i] : i \in {k \in 1..Len(nums) : nums[k] > price}}
Smallest(S) == CHOOSE n \in S : \A m \in S : n <= m

\* C12: for ROUND_NEAREST_NUMBER the strategy returns the smallest configured
\* value strictly greater than the price, and the unmodified price only when
\* no configured value is strictly greater; the result is never below the price.
C12_SmallestGreaterValue ==
    (pout.done /\ pin.settings.payment.type = ROUND_NEAREST_NUMBER) =>
        LET greater == GreaterValues(pout.price.v, pin.settings.payment.round_nearest)
        IN /\ pout.strategy =
                 IF greater = {} THEN pout.price ELSE Num(Smallest(greater))
           /\ ~Less(pout.strategy, pout.price)

CeilingSet == pin.settings.payment.limit.active /\ pin.settings.payment.limit.amount # 0
Ceiling == Num(pin.settings.payment.limit.amount)

\* C13: for a numeric price formatPrice returns min(price, ceiling) x 100 when
\* the ceiling is active and set and price x 100 otherwise; with an active, set
\* ceiling the formatted price never exceeds ceiling x 100, whatever the
\* strategy produced.
C13_CeilingClamps ==
    pout.done =>
        /\ IsNumber(pout.strategy) =>
              pout.formatted =
                  IF CeilingSet
                  THEN IF Less(Ceiling, pout.strategy) THEN Mul(Ceiling, 100)
                       ELSE Mul(pout.strategy, 100)
                  ELSE Mul(pout.strategy, 100)
        /\ CeilingSet =>
              /\ IsNumber(pout.formatted)
              /\ ~Less(Mul(Ceiling, 100), pout.formatted)

C13_Witness ==
    /\ pout.done
    /\ CeilingSet
    /\ pin.settings.payment.limit.amount = 100
    /\ pout.strategy = Num(9500)
    /\ pout.formatted = Num(10000)
    /\ pout.totalPrice = Num(10000)

\* C14: with a payment type outside the five strategies the strategy step
\* yields no value and the level gets no numeric total_price, with or without
\* an active ceiling.
C14_UnrecognizedTypeFails ==
    (pout.done /\ pin.settings.payment.type \notin
                    {PAID_BY_CUSTOMER, PAID_BY_SHIPPER, SPLIT, FIXED, ROUND_NEAREST_NUMBER}) =>
        /\ pout.strategy = Undefined
        /\ ~IsNumber(pout.totalPrice)

C16_CompleteOriginUntouched ==
    (opc # "off" /\ opc # "start" /\ hasValidOrigin(oin.origin)) =>
        /\ opc = "done"
        /\ origin_location = oin.origin
        /\ oqueries = <<>>

C16_Witness ==
    /\ opc = "done"
    /\ hasValidOrigin(oin.origin)
    /\ findFulfillment(oin.fulfillments).location_id # 0
    /\ origin_location = oin.origin
    /\ oqueries = <<>>

\* The fulfillment lookup answers with a location whose mapped address1, city,
\* province_code, zip and phone are all non-empty.
LookupIsComplete ==
    /\ ~oin.lookup.threw
    /\ oin.lookup.location.found
    /\ oin.lookup.location.address.present
    /\ mappedIsComplete(mapLocation(oin.lookup.location))

\* C17: with an incomplete origin and a fulfillment of the line item whose
\* location lookup returns a complete mapped location, the resolver ends with
\* that mapped location and the registered-locations query is never issued.
C17_MappedLocationNoListQuery ==
    (/\ opc \notin {"off", "start"}
     /\ ~hasValidOrigin(oin.origin)
     /\ findFulfillment(oin.fulfillments).location_id # 0
     /\ LookupIsComplete) =>
        /\ opc \in {"lookup", "done"}
        /\ opc = "done" => origin_location = mapLocation(oin.lookup.location)
        /\ \A i \in 1..Len(oqueries) : oqueries[i].query # "locations"

C17_Witness ==
    /\ opc = "done"
    /\ ~hasValidOrigin(oin.origin)
    /\ oin.origin.name # ""
    /\ LookupIsComplete
    /\ oin.lookup.location.name = ""
    /\ origin_location = mapLocation(oin.lookup.location)
    /\ oqueries = <<[query |-> "location", id |-> 7]>>

\* The pipeline stage a step marker belongs to.
Stage(step) ==
    CASE step \in {"getStore_failed"} -> 0
      [] step \in {"accepted", "rejected"} -> 1
      [] step \in {"locations", "locations_failed"} -> 2
      [] step \in {"filtered", "filter_failed"} -> 3
      [] step \in {"ledger_new", "ledger_old", "ledger_error"} -> 4
      [] step \in {"transformed", "transform_failed"} -> 5
      [] step \in {"post_ok", "post_failed"} -> 6

\* C18: within one invocation the steps occur in the order classify, resolve
\* origins, filter, ledger check, transform, submit; the transformer and the
\* submission run only after markIfNew resolved true in that invocation.
C18_StepOrder ==
    \A d \in Deliveries :
        /\ \A i, j \in 1..Len(hsteps[d]) :
              i < j => Stage(hsteps[d][i]) < Stage(hsteps[d][j])
        /\ \A j \in 1..Len(hsteps[d]) :
              Stage(hsteps[d][j]) \in {5, 6} =>
                  \E i \in 1..(j - 1) : hsteps[d][i] = "ledger_new"
        /\ hpc[d] \in {"transform", "post", "SUBMITTED"} => hisNew[d] = "true"

C18_Witness ==
    \E d \in Deliveries :
        /\ hpc[d] = "SUBMITTED"
        /\ hsteps[d] = <<"accepted", "locations", "filtered", "ledger_new",
                         "transformed", "post_ok">>

\* C19: no invocation ends with an exception escaping the handler -- a failure
\* at any step, parsing the body included, ends in FAILED.
C19_NoEscapingException ==
    \A d \in Deliveries :
        /\ hpc[d] # "CRASHED"
        /\ (hpc[d] \in Terminal /\ ~hev[d].parses) => hpc[d] = "FAILED"

\* C20: every rate entry of a response carries the total_price that the same
\* request computed for that level (null when its calculation failed), never a
\* value written by another request.
C20_AnnotationIsRequestScoped ==
    \A r \in Requests :
        qres[r].sent =>
            \A i \in 1..Len(qres[r].rates) :
                \E j \in 1..Len(qcalc[r]) :
                    /\ qcalc[r][j].level = qres[r].rates[i].service_code
                    /\ qres[r].rates[i].total_price = Computed(r, j)

\* Tier 2 ended with a complete mapped location.
Tier2Complete == findFulfillment(oin.fulfillments).location_id # 0 /\ LookupIsComplete

\* Tier 2 replaced the origin by the mapped location (complete or not).
Tier2Mapped ==
    /\ findFulfillment(oin.fulfillments).location_id # 0
    /\ ~oin.lookup.threw
    /\ oin.lookup.location.found
    /\ oin.lookup.location.address.present

ListQueried == \E i \in 1..Len(oqueries) : oqueries[i].query = "locations"
LookupQueried == \E i \in 1..Len(oqueries) : oqueries[i].query = "location"

\* C23: whenever tiers 1 and 2 yield no complete origin (the lookup is absent,
\* fails, returns nothing, or returns incomplete or malformed data), the
\* registered-locations query is issued for the line item.
C23_Tier3AlwaysQueried ==
    (opc = "done" /\ ~hasValidOrigin(oin.origin) /\ ~Tier2Complete) => ListQueried

NoRegisteredLocations == oin.list.threw \/ oin.list.locations = <<>>

\* C24 (as stated): when tiers 1 and 2 fail and there is no registered location
\* (or the list query fails), the resolved origin is all-empty, with no
\* partial data from earlier tiers.
C24_EmptyOriginWhenNoLocations ==
    (/\ opc = "done"
     /\ ~hasValidOrigin(oin.origin)
     /\ ~Tier2Complete
     /\ NoRegisteredLocations) => origin_location = NoOrigin

\* C24 (amended): in that case the resolved origin is what the earlier tiers
\* left -- the incomplete mapped location of tier 2 if there was one, else the
\* line item's own (possibly partial) origin -- and resolution ends normally.
C24_PartialOriginKept ==
    (/\ opc \in {"list", "done"}
     /\ ~hasValidOrigin(oin.origin)
     /\ ~Tier2Complete
     /\ NoRegisteredLocations) =>
        origin_location =
            IF Tier2Mapped THEN mapLocation(oin.lookup.location) ELSE oin.origin

C24_Witness ==
    /\ opc = "done"
    /\ oin.origin = [CompleteOrigin EXCEPT !.phone = ""]
    /\ oin.fulfillments = <<>>
    /\ ~oin.list.threw
    /\ oin.list.locations = <<>>
    /\ oqueries = <<[query |-> "locations", id |-> 0]>>
    /\ origin_location = oin.origin

\* C25: whenever some fulfillment of the order contains the line item and has
\* a location id, a location lookup is issued for the line item, even if
\* another fulfillment containing it has no location id.
C25_LookupForFulfillmentWithLocation ==
    (/\ opc = "done"
     /\ ~hasValidOrigin(oin.origin)
     /\ \E i \in 1..Len(oin.fulfillments) :
            /\ LineItemId \in oin.fulfillments[i].line_items
            /\ oin.fulfillments[i].location_id # 0) => LookupQueried

\* The location tier 3 is to pick: the first with address1, city, zip and
\* phone, else the very first.
Qualifies(l) ==
    /\ l.address.address1 # ""
    /\ l.address.city # ""
    /\ l.address.zip # ""
    /\ l.address.phone # ""
Picked ==
    LET ls == oin.list.locations
        q == {i \in 1..Len(ls) : Qualifies(ls[i])}
    IN IF q = {} THEN ls[1] ELSE ls[CHOOSE i \in q : \A j \in q : i <= j]

C27_NotFoundDroppedSilently ==
    (/\ fout.done
     /\ fin.fetchOk
     /\ \E i \in 1..Len(fin.items) : fin.catalog[fin.items[i].product_id] = NotFound) =>
        /\ ~fout.threw
        /\ \A i \in 1..Len(fout.value) : fin.catalog[fout.value[i].product_id] # NotFound
        /\ \A i \in 1..Len(fin.items) :
              Eligible(fin.items[i]) =>
                  \E j \in 1..Len(fout.value) :
                      fout.value[j].product_id = fin.items[i].product_id

\* The invocation went on past the filter step and was not stopped there: it
\* is at or after the ledger check, and FAILED only by a later step.
WentOn(d) ==
    /\ hpc[d] \in {"ledger", "transform", "post", "SUBMITTED", "DUPLICATE", "FAILED"}
    /\ hpc[d] = "FAILED" =>
          hsteps[d][Len(hsteps[d])] \in {"ledger_error", "transform_failed", "post_failed"}
    /\ Has(d, "ledger_new") => hpc[d] \in {"transform", "post", "SUBMITTED", "FAILED"}

\* C26: when the filter step fails in the handler the invocation goes on to
\* the ledger check and, when new, to transformation and submission, with the
\* event's unfiltered line items.
C26_FilterFailureProceeds ==
    \A d \in Deliveries :
        Has(d, "filter_failed") =>
            /\ hitems[d] = lineItems(hev[d].id)
            /\ WentOn(d)

C26_Witness ==
    \E d \in Deliveries :
        /\ hpc[d] = "SUBMITTED"
        /\ hsteps[d] = <<"accepted", "locations", "filter_failed", "ledger_new",
                         "transformed", "post_ok">>
        /\ hitems[d] = lineItems(hev[d].id)
        /\ Len(hitems[d]) = 2

\* C29: markIfNew(t2, o) resolves false only after a claim of the same tenant
\* and order; a claim by another tenant of the same order id never makes it
\* false, so each tenant claims the order id once.
C29_TenantIsolation ==
    \A d \in Deliveries :
        /\ hisNew[d] = "false" =>
              \E e \in Deliveries \ {d} : Key(e) = Key(d) /\ hisNew[e] = "true"
        /\ hisNew[d] = "true" => Key(d) \in ledger

C29_Witness ==
    \E d, e \in Deliveries :
        /\ hev[d].id = hev[e].id
        /\ hev[d].shop # hev[e].shop
        /\ hisNew[d] = "true" /\ hpc[d] = "SUBMITTED"
        /\ hisNew[e] = "true" /\ hpc[e] = "SUBMITTED"

\* C30: an accepted event whose filter returns no line item is not stopped:
\* the order is claimed in the ledger and submitted with an empty line_items
\* list, and a later event for the same order is a duplicate.
C30_EmptyOrderStillSubmitted ==
    \A d \in Deliveries :
        (Has(d, "filtered") /\ hitems[d] = <<>>) =>
            /\ WentOn(d)
            /\ Has(d, "ledger_new") =>
                  /\ Key(d) \in ledger
                  /\ \A e \in Deliveries \ {d} : Key(e) = Key(d) => hisNew[e] # "true"

C30_Witness ==
    \E d, e \in Deliveries :
        /\ d # e
        /\ Key(e) = Key(d)
        /\ hpc[d] = "SUBMITTED"
        /\ hpc[e] = "DUPLICATE"
        /\ serviceLevelMember(Code(d))
        /\ hsteps[d] = <<"accepted", "locations", "filtered", "ledger_new",
                         "transformed", "post_ok">>
        /\ hitems[d] = <<>>

\* The line-item origins after the tasks of the first n fulfillments have run
\* one after the other in list order.
RECURSIVE InListOrder(_)
InListOrder(n) ==
    IF n = 0
    THEN [li \in ItemIds |-> EventOrigin(IF li = LineItemId THEN uin.origin ELSE NoOrigin)]
    ELSE LET f == uin.fulfillments[n]
             before == InListOrder(n - 1)
         IN IF f.status # "success" \/ f.location_id = 0
               \/ f.answer.threw \/ ~f.answer.location.found
            THEN before
            ELSE [li \in ItemIds |->
                    IF li \in f.line_items THEN GraphOrigin(f.answer.location)
                    ELSE before[li]]

\* C21: the origin_location every line item ends up with after
\* update_line_items_location does not depend on the order in which the
\* location queries complete: it is the one that completion in list order
\* gives.
C21_CompletionOrderIrrelevant ==
    (AllSettled /\ \E i \in 1..NumFulfillments : upc[i] # "off") =>
        uorigin = InListOrder(Len(uin.fulfillments))

\* C22: a line item that arrives in the event with a complete origin_location
\* is submitted with vendor address, company and phone of exactly that origin.
C22_CompleteOriginSubmitted ==
    (opc = "done" /\ hasValidOrigin(uin.origin)) =>
        vendor_info(origin_location) = vendor_info(uin.origin)

====
